---- MODULE Spec2Model ----
(***************************************************************************)
(* The marker directive of ngMap (src/directives/marker.js): the marker    *)
(* factory getMarker, the directive's link function with its geocode       *)
(* callback and its $destroy handler, and the MarkerLabel overlay.         *)
(*                                                                         *)
(* JavaScript values are tagged records, so that `instanceof`, `typeof`,   *)
(* truthiness and indexing are computed as the language computes them.     *)
(* Strings are sequences of one-character strings.                         *)
(***************************************************************************)
EXTENDS Integers, Sequences, FiniteSets, Bags, TLC

VARIABLES parsed, markerEvents, attrs, markerOptions, phase, marker, label,
          overlay, markers, calls, geo, destroyBound, destroyed

vars == <<parsed, markerEvents, attrs, markerOptions, phase, marker, label,
          overlay, markers, calls, geo, destroyBound, destroyed>>

(***************************************************************************)
(* Bounds of the model.                                                    *)
(***************************************************************************)
MaxCoord == 1
MaxPathLen == 2

(***************************************************************************)
(* JavaScript values.                                                      *)
(***************************************************************************)
Undef == [t |-> "undefined"]
Null == [t |-> "null"]
Num(n) == [t |-> "number", n |-> n]
Str(s) == [t |-> "string", s |-> s]
Arr(a) == [t |-> "array", a |-> a]
Obj(f) == [t |-> "object", f |-> f]
LatLng(a, b) == [t |-> "LatLng", lat |-> a, lng |-> b]
Point(x, y) == [t |-> "Point", x |-> x, y |-> y]
Size(w, h) == [t |-> "Size", width |-> w, height |-> h]

\* v instanceof google.maps.LatLng
InstanceOfLatLng(v) == v.t = "LatLng"

\* typeof v === "undefined"
TypeofUndefined(v) == v.t = "undefined"

\* ToBoolean(v)
Truthy(v) ==
  CASE v.t = "undefined" -> FALSE
    [] v.t = "null" -> FALSE
    [] v.t = "number" -> v.n # 0
    [] v.t = "string" -> Len(v.s) > 0
    [] OTHER -> TRUE

\* a || b
OrElse(a, b) == IF Truthy(a) THEN a ELSE b

\* o.k on a plain object (a missing property reads as undefined)
Get(o, k) == IF k \in DOMAIN o.f THEN o.f[k] ELSE Undef

\* property access v.k throws a TypeError exactly on undefined and null
Throws(v) == v.t \in {"undefined", "null"}

\* v[i] (0-based) for a value that does not throw on property access
Index(v, i) ==
  CASE v.t = "array" -> IF i + 1 \in DOMAIN v.a THEN v.a[i + 1] ELSE Undef
    [] v.t = "string" -> IF i + 1 \in DOMAIN v.s THEN Str(<<v.s[i + 1]>>) ELSE Undef
    [] OTHER -> Undef

\* the string literals of the source, as character sequences
S_auto == <<"a", "u", "t", "o">>
S_transparent == <<"t", "r", "a", "n", "s", "p", "a", "r", "e", "n", "t">>
S_black == <<"#", "0", "0", "0", "0", "0", "0">>
S_white == <<"#", "f", "f", "f", "f", "f", "f">>
S_CIRCLE == <<"C", "I", "R", "C", "L", "E">>
S_FORWARD_CLOSED_ARROW == <<"F", "O", "R", "W", "A", "R", "D", "_", "C", "L", "O", "S", "E", "D", "_", "A", "R", "R", "O", "W">>
S_circle == <<"c", "i", "r", "c", "l", "e">>

UpperOrUnderscore == {"A", "B", "C", "D", "E", "F", "G", "H", "I", "J", "K", "L", "M", "N", "O", "P", "Q", "R", "S", "T", "U", "V", "W", "X", "Y", "Z", "_"}

\* a variant of MatchesSymbolName whose pattern lost its anchors: /[A-Z_]+/
MatchesSymbolNameUnanchored(v) ==
  /\ v.t = "string"
  /\ \E i \in DOMAIN v.s : v.s[i] \in UpperOrUnderscore

\* (""+v).match(/^[A-Z_]+$/): "undefined", "null" and digits never match
MatchesSymbolName(v) ==
  /\ v.t = "string"
  /\ Len(v.s) > 0
  /\ \A i \in DOMAIN v.s : v.s[i] \in UpperOrUnderscore

\* google.maps.SymbolPath[name]: the enumeration's constant, undefined for
\* a name the enumeration does not have
SymbolPath(name) ==
  CASE name = S_CIRCLE -> Num(0)
    [] name = S_FORWARD_CLOSED_ARROW -> Num(1)
    [] OTHER -> Undef

(***************************************************************************)
(* getMarker(options, events), lines 41-84.                                *)
(***************************************************************************)
\* lines 48-50: the icon object after the symbol-path substitution
WithSymbolPath(icon) ==
  IF MatchesSymbolName(Get(icon, "path"))
    THEN Obj([k \in DOMAIN icon.f \cup {"path"} |->
                IF k = "path" THEN SymbolPath(icon.f["path"].s) ELSE icon.f[k]])
    ELSE icon

\* a variant of ConvertSubField that reads the pair in the wrong order
ConvertSubFieldSwapped(key, arr) ==
  IF key \in {"anchor", "origin"} THEN Point(Index(arr, 1), Index(arr, 0))
  ELSE IF key \in {"size", "scaledSize"} THEN Size(Index(arr, 1), Index(arr, 0))
  ELSE arr

\* lines 53-58: the new value of own property key, whose value is arr
ConvertSubField(key, arr) ==
  IF key \in {"anchor", "origin"} THEN Point(Index(arr, 0), Index(arr, 1))
  ELSE IF key \in {"size", "scaledSize"} THEN Size(Index(arr, 0), Index(arr, 1))
  ELSE arr

\* lines 54-57: arr[0] throws when an anchor/origin/size/scaledSize is null
\* or undefined
IconThrows(icon) ==
  /\ icon.t = "object"
  /\ \E k \in DOMAIN icon.f \cap {"anchor", "origin", "size", "scaledSize"} :
       Throws(icon.f[k])

\* lines 47-61: options.icon after normalization (an icon is undefined, a
\* URL string or a plain object; only the last is instanceof Object)
NormalizeIcon(icon) ==
  IF icon.t = "object"
    THEN LET w == WithSymbolPath(icon)
         IN  Obj([k \in DOMAIN w.f |-> ConvertSubField(k, w.f[k])])
    ELSE icon

\* a variant of DefaultPosition that substitutes no default
DefaultPositionKept(position) == position

\* lines 62-64
DefaultPosition(position) ==
  IF ~InstanceOfLatLng(position) THEN LatLng(0, 0) ELSE position

\* a variant of BridgeZIndex that copies the legacy field whenever it is set
BridgeZIndexAlways(zIndex, zindex) ==
  IF ~TypeofUndefined(zindex) THEN zindex ELSE zIndex

\* lines 65-68
BridgeZIndex(zIndex, zindex) ==
  IF TypeofUndefined(zIndex) /\ ~TypeofUndefined(zindex) THEN zindex ELSE zIndex

\* a variant of AddListeners that does not skip the empty event name
AddListenersAll(events) ==
  SetToBag({[name |-> n, fn |-> events[n]] : n \in DOMAIN events})

\* lines 77-81: the listeners added to the marker, one addListener call each
AddListeners(events) ==
  SetToBag({[name |-> n, fn |-> events[n]] : n \in {e \in DOMAIN events : e # ""}})

\* lines 47-69: the options object as getMarker leaves it
FinalOptions(options) ==
  [options EXCEPT !["icon"] = NormalizeIcon(options["icon"]),
                  !["position"] = DefaultPosition(options["position"]),
                  !["zIndex"] = BridgeZIndex(options["zIndex"], options["zindex"])]

\* lines 41-84: the result of a call
getMarker(options, events) ==
  IF IconThrows(options["icon"])
    THEN [threw |-> TRUE]
    ELSE [threw |-> FALSE,
          options |-> FinalOptions(options),
          marker |-> [props |-> FinalOptions(options),
                      listeners |-> AddListeners(events)]]

(***************************************************************************)
(* linkFunc, lines 88-135.                                                 *)
(***************************************************************************)
Call(op, arg) == [op |-> op, arg |-> arg]

\* v.k for a value that does not throw on property access
Prop(v, k) == IF v.t = "object" THEN Get(v, k) ELSE Undef

\* a variant of AddressOf that lost the instanceof test
AddressOfUnchecked(position) == position

\* lines 94-97
AddressOf(position) ==
  IF ~InstanceOfLatLng(position) THEN position ELSE Undef

\* line 102
WantsLabel(options) == ~TypeofUndefined(options["customlabel"])

\* lines 106-113: customlabel.text throws on a null customlabel, and
\* marker.icon.fillColor throws on a marker without icon
LabelThrows(customlabel, m) ==
  Throws(customlabel) \/ Throws(m.props["icon"])

\* line 113
BackgroundColor(m) ==
  OrElse(Prop(m.props["icon"], "fillColor"), Str(S_transparent))

\* line 112
LabelZIndex(m) == OrElse(m.props["zIndex"], Str(S_auto))

\* lines 103-114: the values the label overlay is constructed with
LabelOptions(customlabel, m) ==
  [text |-> Prop(customlabel, "text"),
   color |-> OrElse(Prop(customlabel, "color"), Str(S_black)),
   fillColor |-> OrElse(Prop(customlabel, "fillColor"), Str(S_white)),
   fillOpacity |-> OrElse(Prop(customlabel, "fillOpacity"), Num(1)),
   strokeColor |-> OrElse(Prop(customlabel, "strokeColor"), Str(S_white)),
   strokeWeight |-> OrElse(Prop(customlabel, "strokeWeight"), Num(1)),
   zIndex |-> LabelZIndex(m),
   backgroundColor |-> BackgroundColor(m)]

\* a variant of GeoRequest that lost the test of the address
GeoRequestAlways(address) == <<Call("getGeoLocation", address)>>

\* lines 118-119: the geocode request of a link
GeoRequest(address) ==
  IF Truthy(address) THEN <<Call("getGeoLocation", address)>> ELSE <<>>

\* a variant of ResolveCalls that does nothing once the element is destroyed
ResolveCallsCancelled(latlng, geoCallback) ==
  IF destroyed
    THEN <<>>
    ELSE <<Call("setPosition", latlng), Call("zoomToIncludeMarkers", Undef)>>
           \o (IF Truthy(geoCallback) THEN <<Call("$parse", geoCallback)>> ELSE <<>>)

\* a variant of ResolveCalls that builds the marker again at the resolved
\* position
ResolveCallsNewMarker(latlng, geoCallback) ==
  <<Call("getMarker", Undef), Call("setPosition", latlng), Call("zoomToIncludeMarkers", Undef)>>
    \o (IF Truthy(geoCallback) THEN <<Call("$parse", geoCallback)>> ELSE <<>>)

\* lines 120-124: what the resolution callback does, in order
ResolveCalls(latlng, geoCallback) ==
  <<Call("setPosition", latlng), Call("zoomToIncludeMarkers", Undef)>>
    \o (IF Truthy(geoCallback) THEN <<Call("$parse", geoCallback)>> ELSE <<>>)

\* a variant of DestroyCalls that deletes the marker twice
DestroyCallsTwice ==
  <<Call("deleteObject", Str(<<"m">>)), Call("deleteObject", Str(<<"m">>))>>

\* lines 132-134: what the $destroy handler does
DestroyCalls == <<Call("deleteObject", Str(<<"m">>))>>

NoMarker == [made |-> FALSE]
NoLabel == [made |-> FALSE]

\* mapController.addObject('markers', marker) and deleteObject('markers',
\* marker) on the controller's collection
addObject(coll, m) == coll \cup {m}
deleteObject(coll, m) == coll \ {m}

\* lines 89-92: the calls on the attribute parser
ParseCalls ==
  <<Call("orgAttributes", Undef), Call("filter", Undef),
    Call("getOptions", Undef), Call("getEvents", Undef)>>

\* lines 98-99
CreateCalls == <<Call("getMarker", Undef), Call("addObject", Str(<<"m">>))>>

\* lines 103-115
LabelCalls(wantsLabel) ==
  IF wantsLabel
    THEN <<Call("MarkerLabel", Str(<<"m">>)), Call("bindTo", Str(<<"m">>))>>
    ELSE <<>>

\* lines 131-134
ObserveCalls == <<Call("observeAttrSetObj", Str(<<"m">>)), Call("bind", Str(<<"m">>))>>

\* a variant of LinkCalls that requests the geocode before the marker is
\* created and added
LinkCallsGeoFirst(upTo, wantsLabel, address) ==
  IF upTo = "parsed" THEN ParseCalls
  ELSE IF upTo = "added" THEN ParseCalls \o CreateCalls
  ELSE ParseCalls \o GeoRequest(address) \o CreateCalls \o LabelCalls(wantsLabel)
         \o ObserveCalls

\* lines 89-134: the calls of one link in the order of the code, up to the
\* exception in getMarker ("parsed"), up to the exception in the label's
\* arguments ("added"), or to the end ("linked")
LinkCalls(upTo, wantsLabel, address) ==
  IF upTo = "parsed" THEN ParseCalls
  ELSE IF upTo = "added" THEN ParseCalls \o CreateCalls
  ELSE ParseCalls \o CreateCalls \o LabelCalls(wantsLabel) \o GeoRequest(address)
         \o ObserveCalls

(***************************************************************************)
(* MarkerLabel, lines 140-197.  overlay.parent is the parent of this.div,  *)
(* overlay.subscribed the listeners registered on the label (a bag of      *)
(* event names), overlay.handles this.listeners, and overlay.last the      *)
(* latest change notification with the number of redraws it triggered.     *)
(***************************************************************************)
NoOverlay == [parent |-> "none", subscribed |-> EmptyBag, handles |-> <<>>, last |-> <<>>]

\* lines 165-169: the listeners onAdd registers, in order
AddedListeners == <<"position_changed", "text_changed", "zindex_changed">>

SeqToBag(q) == [e \in {q[i] : i \in DOMAIN q} |-> Cardinality({i \in DOMAIN q : q[i] = e})]

\* a variant of RemovedListeners whose loop stops one short
RemovedListenersButLast(handles) == SeqToBag(SubSeq(handles, 1, Len(handles) - 1))

\* lines 175-177: the listeners onRemove removes
RemovedListeners(handles) == SeqToBag(handles)

\* lines 166-168: a change notification runs every listener subscribed to
\* it, and each runs draw() once
Notify(ov, ev) == [ov EXCEPT !.last = <<ev, CopiesIn(ev, ov.subscribed)>>]

\* lines 162-170: the overlay framework adds the label to the map's panes
OnAdd ==
  /\ label.made
  /\ overlay.parent = "none"
  /\ overlay' = [parent |-> "overlayImage",
                 subscribed |-> overlay.subscribed (+) SeqToBag(AddedListeners),
                 handles |-> AddedListeners,
                 last |-> <<>>]
  /\ UNCHANGED <<parsed, markerEvents, attrs, markerOptions, phase, marker, label, markers, calls, geo, destroyBound, destroyed>>

\* lines 173-178: the overlay framework removes the label from the map
OnRemove ==
  /\ label.made
  /\ overlay.parent # "none"
  /\ overlay' = [parent |-> "none",
                 subscribed |-> overlay.subscribed (-) RemovedListeners(overlay.handles),
                 handles |-> overlay.handles,
                 last |-> <<>>]
  /\ UNCHANGED <<parsed, markerEvents, attrs, markerOptions, phase, marker, label, markers, calls, geo, destroyBound, destroyed>>

\* lines 166-168: a position, text or z-index change of the label is notified
Changed(ev) ==
  /\ label.made
  /\ overlay' = Notify(overlay, ev)
  /\ UNCHANGED <<parsed, markerEvents, attrs, markerOptions, phase, marker, label, markers, calls, geo, destroyBound, destroyed>>

\* lines 88-135: one link of the element, run to completion or to the
\* first exception
Link ==
  /\ phase = "unlinked"
  /\ LET address == AddressOf(parsed["position"])
         r == getMarker(parsed, markerEvents)
     IN  IF r.threw
           THEN /\ phase' = "threw"
                /\ calls' = calls \o LinkCalls("parsed", FALSE, address)
                /\ UNCHANGED <<markerOptions, marker, label, markers, geo, destroyBound>>
           ELSE LET m == [made |-> TRUE, props |-> r.marker.props, listeners |-> r.marker.listeners]
                    cl == r.options["customlabel"]
                IN  /\ markerOptions' = r.options
                    /\ marker' = m
                    /\ markers' = addObject(markers, "m")
                    /\ IF WantsLabel(r.options) /\ LabelThrows(cl, m)
                         THEN /\ phase' = "threw"
                              /\ calls' = calls \o LinkCalls("added", TRUE, address)
                              /\ UNCHANGED <<label, geo, destroyBound>>
                         ELSE /\ phase' = "linked"
                              /\ label' = IF WantsLabel(r.options)
                                            THEN [made |-> TRUE, values |-> LabelOptions(cl, m)]
                                            ELSE label
                              /\ calls' = calls \o LinkCalls("linked", WantsLabel(r.options), address)
                              /\ geo' = IF Truthy(address) THEN "pending" ELSE geo
                              /\ destroyBound' = TRUE
  /\ UNCHANGED <<parsed, markerEvents, attrs, overlay, destroyed>>

\* a variant of GeoResolve that registers the marker again
GeoResolveRegisters(latlng) ==
  /\ geo = "pending"
  /\ geo' = "resolved"
  /\ marker' = [marker EXCEPT !.props["position"] = latlng]
  /\ overlay' = IF label.made THEN Notify(overlay, "position_changed") ELSE overlay
  /\ calls' = calls \o ResolveCalls(latlng, attrs["geoCallback"])
  /\ markers' = addObject(markers, "m")
  /\ UNCHANGED <<parsed, markerEvents, attrs, markerOptions, phase, label, destroyBound, destroyed>>

\* lines 119-125: the geocode promise resolves with latlng; the label's
\* position is bound to the marker's (line 115), so it is notified
GeoResolve(latlng) ==
  /\ geo = "pending"
  /\ geo' = "resolved"
  /\ marker' = [marker EXCEPT !.props["position"] = latlng]
  /\ overlay' = IF label.made THEN Notify(overlay, "position_changed") ELSE overlay
  /\ calls' = calls \o ResolveCalls(latlng, attrs["geoCallback"])
  /\ UNCHANGED <<parsed, markerEvents, attrs, markerOptions, phase, label, markers, destroyBound, destroyed>>

\* a variant of GeoReject that issues the request again
GeoRejectRetries ==
  /\ geo = "pending"
  /\ geo' = "rejected"
  /\ calls' = calls \o GeoRequest(AddressOf(parsed["position"]))
  /\ UNCHANGED <<parsed, markerEvents, attrs, markerOptions, phase, marker, label, overlay, markers, destroyBound, destroyed>>

\* line 119: the promise is rejected; then() was given no rejection handler
GeoReject ==
  /\ geo = "pending"
  /\ geo' = "rejected"
  /\ UNCHANGED <<parsed, markerEvents, attrs, markerOptions, phase, marker, label, overlay, markers, calls, destroyBound, destroyed>>

\* a variant of Destroy that also takes the label off the map
DestroyDetaches ==
  /\ phase \in {"linked", "threw"}
  /\ ~destroyed
  /\ destroyed' = TRUE
  /\ overlay' = NoOverlay
  /\ IF destroyBound
       THEN /\ markers' = deleteObject(markers, "m")
            /\ calls' = calls \o DestroyCalls
       ELSE UNCHANGED <<markers, calls>>
  /\ UNCHANGED <<parsed, markerEvents, attrs, markerOptions, phase, marker, label, geo, destroyBound>>

\* lines 132-134: the element is destroyed; $destroy runs the handler if the
\* link got as far as binding it
Destroy ==
  /\ phase \in {"linked", "threw"}
  /\ ~destroyed
  /\ destroyed' = TRUE
  /\ IF destroyBound
       THEN /\ markers' = deleteObject(markers, "m")
            /\ calls' = calls \o DestroyCalls
       ELSE UNCHANGED <<markers, calls>>
  /\ UNCHANGED <<parsed, markerEvents, attrs, markerOptions, phase, marker, label, overlay, geo, destroyBound>>

\* getMarker called on its own
CallGetMarker ==
  /\ phase = "unlinked"
  /\ LET r == getMarker(parsed, markerEvents)
     IN  IF r.threw
           THEN /\ phase' = "threw"
                /\ UNCHANGED <<markerOptions, marker>>
           ELSE /\ phase' = "made"
                /\ markerOptions' = r.options
                /\ marker' = [made |-> TRUE, props |-> r.marker.props, listeners |-> r.marker.listeners]
  /\ UNCHANGED <<parsed, markerEvents, attrs, label, overlay, markers, calls, geo, destroyBound, destroyed>>

(***************************************************************************)
(* Inputs.                                                                 *)
(***************************************************************************)
Coords == {LatLng(a, b) : a \in 0..MaxCoord, b \in 0..MaxCoord}
Numbers == {Num(n) : n \in 0..MaxCoord}
\* the coordinates a lookup resolves to
GeoResults == {LatLng(a, a) : a \in 0..MaxCoord}
S_cn_tower == <<"c", "n">>
S_callback == <<"c", "b", "(", ")">>
S_red == <<"r", "e", "d">>
S_url == <<"a", ".", "p", "n", "g">>
S_hello == <<"h", "i">>

OptionKeys == {"position", "icon", "zIndex", "zindex", "customlabel"}
Options(position, icon, zIndex, zindex, customlabel) ==
  [k \in OptionKeys |->
     CASE k = "position" -> position
       [] k = "icon" -> icon
       [] k = "zIndex" -> zIndex
       [] k = "zindex" -> zindex
       [] OTHER -> customlabel]

Positions == {Undef, Str(<<>>), Str(S_cn_tower)} \cup Coords

\* a custom label with its text and at most one other field, that field
\* falsy or truthy
LabelFields == {"color", "fillColor", "fillOpacity", "strokeColor", "strokeWeight"}
FieldValues(f) ==
  IF f \in {"fillOpacity", "strokeWeight"} THEN {Num(0), Num(2)} ELSE {Str(<<>>), Str(S_red)}
CustomLabels ==
  {Obj([k \in {"text"} |-> Str(S_hello)])}
    \cup {Obj([k \in {"text", f} |-> IF k = "text" THEN Str(S_hello) ELSE v]) :
            <<f, v>> \in UNION {{f} \X FieldValues(f) : f \in LabelFields}}

LinkIcons ==
  {Undef, Str(S_url), Obj(<<>>), Obj([k \in {"fillColor"} |-> Str(S_red)]),
   Obj([k \in {"anchor"} |-> Null])}
LinkEvents == {<<>>, [n \in {"click"} |-> "f"]}
GeoCallbacks == {Undef, Str(<<>>), Str(S_callback)}

Start ==
  /\ markerOptions = Undef
  /\ phase = "unlinked"
  /\ marker = NoMarker
  /\ label = NoLabel
  /\ overlay = NoOverlay
  /\ markers = {}
  /\ calls = <<>>
  /\ geo = "none"
  /\ destroyBound = FALSE
  /\ destroyed = FALSE

Init ==
  /\ \E p \in Positions, i \in LinkIcons, z \in {Undef} \cup Numbers,
        c \in {Undef} \cup CustomLabels :
       parsed = Options(p, i, z, Undef, c)
  /\ markerEvents \in LinkEvents
  /\ \E g \in GeoCallbacks : attrs = [k \in {"geoCallback"} |-> g]
  /\ Start

Next ==
  \/ Link
  \/ \E latlng \in GeoResults : GeoResolve(latlng)
  \/ GeoReject
  \/ Destroy
  \/ OnAdd
  \/ OnRemove
  \/ \E ev \in {"position_changed", "text_changed", "zindex_changed"} : Changed(ev)

Spec == Init /\ [][Next]_vars

(***************************************************************************)
(* getMarker on its own, over a wider range of options and events.         *)
(***************************************************************************)
PathChars == {"A", "_", "a"}
PathStrings ==
  UNION {[1..n -> PathChars] : n \in 0..MaxPathLen}
    \cup {S_CIRCLE, S_FORWARD_CLOSED_ARROW, S_circle}

NumericPairs == {Arr(<<x, y>>) : x \in Numbers, y \in Numbers}
OtherSubFields == {Null, Arr(<<Num(1)>>), Str(<<"a", "b">>), Point(Num(0), Num(1))}
SubFields == NumericPairs \cup OtherSubFields

\* the icon objects: an optional path, at most one of anchor/origin and at
\* most one of size/scaledSize
PathParts == {<<>>} \cup {[k \in {"path"} |-> Str(s)] : s \in PathStrings}
PointParts ==
  {<<>>} \cup {[k \in {key} |-> v] : <<key, v>> \in {"anchor", "origin"} \X SubFields}
SizeParts ==
  {<<>>} \cup {[k \in {key} |-> v] : <<key, v>> \in {"size", "scaledSize"} \X SubFields}
Merge(f, g) ==
  [k \in DOMAIN f \cup DOMAIN g |-> IF k \in DOMAIN f THEN f[k] ELSE g[k]]
Icon(a, b, c) == Obj(Merge(a, Merge(b, c)))

EventNames == {"", "click", "dblclick"}
Callbacks == {"f", "g"}
EventMappings == UNION {[K -> Callbacks] : K \in SUBSET EventNames}

FactoryPositions == Positions \cup {Null, Arr(<<Num(0), Num(1)>>)}

\* every icon with plain other options, or every combination of the other
\* options and events with one of a few icons
InitFactory ==
  /\ \/ \E p \in {Undef, LatLng(1, 0)}, a \in PathParts, b \in PointParts, c \in SizeParts :
          /\ parsed = Options(p, Icon(a, b, c), Undef, Undef, Undef)
          /\ markerEvents = <<>>
     \/ \E p \in FactoryPositions, i \in {Undef, Str(S_url), Obj(<<>>)},
           z \in {Undef, Null} \cup Numbers, zl \in {Undef} \cup Numbers :
          /\ parsed = Options(p, i, z, zl, Undef)
          /\ markerEvents \in EventMappings
  /\ attrs = [k \in {"geoCallback"} |-> Undef]
  /\ Start

NextFactory == CallGetMarker

SpecFactory == InitFactory /\ [][NextFactory]_vars

(***************************************************************************)
(* Properties.                                                             *)
(***************************************************************************)
Count(op) == Cardinality({i \in DOMAIN calls : calls[i].op = op})
ArgsOf(op) == {calls[i].arg : i \in {j \in DOMAIN calls : calls[j].op = op}}
IsGeoStep(c) == c.op \in {"setPosition", "zoomToIncludeMarkers", "$parse"}
GeoSteps == SelectSeq(calls, IsGeoStep)
IsAddress(v) == v.t = "string" /\ Len(v.s) > 0
LinkEnded == phase \in {"linked", "threw"}

\* C1: linked with a non-empty address string, the marker is constructed at
\* (0,0), getGeoLocation is called exactly once with that address, and a
\* resolution to c sets the marker's position to c, then requests
\* zoomToIncludeMarkers, then evaluates the geo-callback expression once if
\* the attribute was supplied, and evaluates nothing otherwise.
C1_GeocodeSequence ==
  (IsAddress(parsed["position"]) /\ LinkEnded) =>
    /\ marker.made /\ markerOptions["position"] = LatLng(0, 0)
    /\ Count("getGeoLocation") = 1
    /\ ArgsOf("getGeoLocation") = {parsed["position"]}
    /\ geo # "resolved" => (GeoSteps = <<>> /\ marker.props["position"] = LatLng(0, 0))
    /\ geo = "resolved" =>
         GeoSteps = <<Call("setPosition", marker.props["position"]),
                      Call("zoomToIncludeMarkers", Undef)>>
                      \o (IF TypeofUndefined(attrs["geoCallback"])
                            THEN <<>>
                            ELSE <<Call("$parse", attrs["geoCallback"])>>)

\* C2: linked with a position that is a coordinate value, the marker is
\* constructed at that coordinate, and from link through destroy there is no
\* getGeoLocation call, no zoomToIncludeMarkers request and no evaluation of
\* the geo-callback expression.
C2_NoGeocodeForCoordinate ==
  InstanceOfLatLng(parsed["position"]) =>
    /\ marker.made =>
         /\ markerOptions["position"] = parsed["position"]
         /\ marker.props["position"] = parsed["position"]
    /\ Count("getGeoLocation") = 0
    /\ Count("zoomToIncludeMarkers") = 0
    /\ Count("$parse") = 0
    /\ geo = "none"

C2_Witness ==
  /\ InstanceOfLatLng(parsed["position"])
  /\ Truthy(attrs["geoCallback"])
  /\ phase = "linked"
  /\ destroyed

\* C3: after a link that completed, the marker was added to 'markers'
\* exactly once and is in the collection until the element is destroyed, and
\* destruction calls deleteObject('markers', marker) exactly once, whatever
\* the state of the geocode lookup.
C3_AddedOnceDeletedOnce ==
  phase = "linked" =>
    /\ Count("addObject") = 1
    /\ ~destroyed => ("m" \in markers /\ Count("deleteObject") = 0)
    /\ destroyed => (Count("deleteObject") = 1 /\ ArgsOf("deleteObject") = {Str(<<"m">>)})

C3_Witness ==
  /\ phase = "linked"
  /\ destroyed
  /\ geo = "pending"
  /\ Count("deleteObject") = 1

\* C4: the position passed to the marker constructor is a coordinate value:
\* the supplied position when that is a coordinate value, and (0,0) when it
\* is absent or anything else.
C4_ConstructorPosition ==
  phase = "made" =>
    /\ InstanceOfLatLng(markerOptions["position"])
    /\ marker.props["position"] = markerOptions["position"]
    /\ parsed["position"].t = "LatLng" => markerOptions["position"] = parsed["position"]
    /\ parsed["position"].t # "LatLng" => markerOptions["position"] = LatLng(0, 0)

C4_Witness ==
  /\ phase = "made"
  /\ IsAddress(parsed["position"])
  /\ marker.props["position"] = LatLng(0, 0)

\* C5: with a customlabel that has only its text, the label overlay is
\* constructed with color '#000000', fillColor '#ffffff', fillOpacity 1,
\* strokeColor '#ffffff', strokeWeight 1, the supplied text, and the marker's
\* z-index, or 'auto' when the marker has none.
C5_LabelDefaults ==
  (LinkEnded /\ parsed["customlabel"].t = "object"
             /\ DOMAIN parsed["customlabel"].f = {"text"}) =>
    /\ label.made
    /\ label.values.text = parsed["customlabel"].f["text"]
    /\ label.values.color = Str(S_black)
    /\ label.values.fillColor = Str(S_white)
    /\ label.values.fillOpacity = Num(1)
    /\ label.values.strokeColor = Str(S_white)
    /\ label.values.strokeWeight = Num(1)
    /\ label.values.zIndex = IF TypeofUndefined(parsed["zIndex"])
                               THEN Str(S_auto)
                               ELSE parsed["zIndex"]

\* C6: a link never throws: with a customlabel and a marker that has no
\* icon, or an icon without fill color, the label gets the background color
\* 'transparent', and the link goes on to the geocode request (for an
\* address), the observer registration and the destroy-handler registration.
C6_LinkNeverThrows ==
  /\ phase # "threw"
  /\ (phase = "linked" /\ WantsLabel(parsed)
        /\ TypeofUndefined(Prop(parsed["icon"], "fillColor"))) =>
       (label.made /\ label.values.backgroundColor = Str(S_transparent))
  /\ phase = "linked" =>
       /\ Count("observeAttrSetObj") = 1
       /\ destroyBound
       /\ IsAddress(parsed["position"]) => Count("getGeoLocation") = 1

\* C7: with the canonical zIndex unset and the legacy zindex set to v, the
\* marker is constructed with zIndex v; a canonical zIndex that is set is
\* left as it is.
C7_LegacyZIndex ==
  phase = "made" =>
    /\ (TypeofUndefined(parsed["zIndex"]) /\ ~TypeofUndefined(parsed["zindex"])) =>
         marker.props["zIndex"] = parsed["zindex"]
    /\ ~TypeofUndefined(parsed["zIndex"]) => marker.props["zIndex"] = parsed["zIndex"]

C7_Witness ==
  /\ phase = "made"
  /\ TypeofUndefined(parsed["zIndex"])
  /\ parsed["zindex"] = Num(1)
  /\ marker.props["zIndex"] = Num(1)

\* C8: getMarker registers exactly one listener for each non-empty event
\* name of the mapping, bound to that name's callback, and no other listener.
C8_OneListenerPerEvent ==
  phase = "made" =>
    /\ \A n \in DOMAIN markerEvents \ {""} :
         /\ CopiesIn([name |-> n, fn |-> markerEvents[n]], marker.listeners) = 1
         /\ \A l \in BagToSet(marker.listeners) : l.name = n => l.fn = markerEvents[n]
    /\ \A l \in BagToSet(marker.listeners) : l.name # "" /\ l.name \in DOMAIN markerEvents

C8_Witness ==
  /\ phase = "made"
  /\ DOMAIN markerEvents = {"", "click", "dblclick"}
  /\ markerEvents["click"] = "f"
  /\ markerEvents["dblclick"] = "g"
  /\ BagCardinality(marker.listeners) = 2

\* C9: for an icon object whose path is a string, a path of uppercase
\* letters and underscores only is replaced by the symbol-path enumeration's
\* value of that name, and any other path is passed through unchanged.
C9_SymbolPath ==
  (phase = "made" /\ parsed["icon"].t = "object" /\ Get(parsed["icon"], "path").t = "string") =>
    LET p == parsed["icon"].f["path"]
        q == Get(marker.props["icon"], "path")
    IN  IF p.s # <<>> /\ \A i \in DOMAIN p.s : p.s[i] \in UpperOrUnderscore
          THEN q = SymbolPath(p.s)
          ELSE q = p

C9_Witness ==
  /\ phase = "made"
  /\ parsed["icon"].t = "object"
  /\ Get(parsed["icon"], "path") = Str(S_CIRCLE)
  /\ Get(marker.props["icon"], "path") = Num(0)

C10_IsNumericPair(v) ==
  v.t = "array" /\ Len(v.a) = 2 /\ v.a[1].t = "number" /\ v.a[2].t = "number"

\* C10: an anchor or origin given as a pair of numbers [x,y] becomes a point
\* with that x and y, and a size or scaledSize given as [w,h] becomes a
\* dimension with that width and height.
C10_PointsAndSizes ==
  (phase = "made" /\ parsed["icon"].t = "object") =>
    \A k \in DOMAIN parsed["icon"].f :
      LET v == parsed["icon"].f[k]
          w == Get(marker.props["icon"], k)
      IN  C10_IsNumericPair(v) =>
            /\ k \in {"anchor", "origin"} =>
                 (w.t = "Point" /\ w.x = v.a[1] /\ w.y = v.a[2])
            /\ k \in {"size", "scaledSize"} =>
                 (w.t = "Size" /\ w.width = v.a[1] /\ w.height = v.a[2])

C10_Witness ==
  /\ phase = "made"
  /\ parsed["icon"].t = "object"
  /\ Get(parsed["icon"], "anchor") = Arr(<<Num(0), Num(1)>>)
  /\ Get(parsed["icon"], "scaledSize") = Arr(<<Num(1), Num(0)>>)
  /\ Get(marker.props["icon"], "anchor") = Point(Num(0), Num(1))
  /\ Get(marker.props["icon"], "scaledSize") = Size(Num(1), Num(0))

FourSubFields == {"anchor", "origin", "size", "scaledSize"}

\* C11: icon normalization leaves every icon sub-field that does not have
\* the expected shape as it is: a sub-field other than anchor, origin, size
\* and scaledSize is not changed, and one of these four that is not a pair
\* of two numbers reaches the marker constructor unchanged.
C11_OtherShapesUntouched ==
  (phase = "made" /\ parsed["icon"].t = "object") =>
    \A k \in DOMAIN parsed["icon"].f :
      LET v == parsed["icon"].f[k]
          w == Get(marker.props["icon"], k)
      IN  /\ (k \notin FourSubFields /\ k # "path") => w = v
          /\ (k \in FourSubFields /\ ~C10_IsNumericPair(v)) => w = v

\* C12: a lookup that resolves after the element was destroyed still runs
\* the whole callback on the deregistered marker: the marker is moved to the
\* resolved coordinate, zoomToIncludeMarkers is requested, and the
\* geo-callback expression, if one was supplied, is evaluated.
C12_NoCancellation ==
  [][(destroyed /\ geo = "pending" /\ geo' = "resolved") =>
       \E c \in Coords :
         /\ marker'.props["position"] = c
         /\ "m" \notin markers'
         /\ calls' = calls \o <<Call("setPosition", c), Call("zoomToIncludeMarkers", Undef)>>
                       \o (IF IsAddress(attrs["geoCallback"])
                             THEN <<Call("$parse", attrs["geoCallback"])>>
                             ELSE <<>>)]_vars

C12_Witness ==
  /\ destroyed
  /\ geo = "resolved"
  /\ marker.props["position"] = LatLng(1, 1)
  /\ Len(calls) > 3
  /\ calls[Len(calls)].op = "$parse"
  /\ calls[Len(calls) - 3].op = "deleteObject"

\* C13: once the destroy handler has run, the marker is absent from the
\* 'markers' collection in every later state; a geocode resolution that
\* arrives later does not add it back.
C13_StaysDeregistered ==
  (destroyed /\ destroyBound) => "m" \notin markers

C13_Witness ==
  /\ destroyed
  /\ destroyBound
  /\ geo = "resolved"
  /\ calls[Len(calls)].op = "zoomToIncludeMarkers"
  /\ calls[Len(calls) - 2].op = "deleteObject"
  /\ "m" \notin markers

\* C14: a lookup that is rejected or never resolves has no effect: the
\* marker keeps position (0,0), zoomToIncludeMarkers is not requested, the
\* geo-callback expression is not evaluated, no second lookup is issued, and
\* the marker stays in 'markers' until the element is destroyed.
C14_RejectionIgnored ==
  /\ [](geo \in {"pending", "rejected"} =>
          /\ marker.props["position"] = LatLng(0, 0)
          /\ Count("zoomToIncludeMarkers") = 0
          /\ Count("$parse") = 0
          /\ Count("setPosition") = 0
          /\ Count("getGeoLocation") = 1
          /\ ~destroyed => "m" \in markers)
  /\ [][(geo = "pending" /\ geo' = "rejected") =>
          UNCHANGED <<marker, markerOptions, label, overlay, markers, calls, phase, destroyBound, destroyed>>]_vars

C14_Witness ==
  /\ geo = "rejected"
  /\ ~destroyed
  /\ "m" \in markers
  /\ marker.props["position"] = LatLng(0, 0)

C15_Rank(op) ==
  CASE op = "orgAttributes" -> 1
    [] op = "filter" -> 2
    [] op = "getOptions" -> 3
    [] op = "getEvents" -> 4
    [] op = "getMarker" -> 5
    [] op = "addObject" -> 6
    [] op = "MarkerLabel" -> 7
    [] op = "bindTo" -> 8
    [] op = "getGeoLocation" -> 9
    [] op = "observeAttrSetObj" -> 10
    [] op = "bind" -> 11
    [] OTHER -> 12

\* C15: a link takes its steps in the order of the lifecycle: the options
\* and events are resolved, the marker is created and added to 'markers',
\* the label (with a customlabel) is constructed and bound to the marker's
\* position, the geocode (with an address) is requested, the observers and
\* the destroy handler are registered; the geocode is never requested before
\* the marker is in 'markers', and destruction is handled only after the
\* link completed.
C15_LifecycleOrder ==
  /\ \A i \in 1..(Len(calls) - 1) :
       \/ C15_Rank(calls[i].op) < C15_Rank(calls[i + 1].op)
       \/ C15_Rank(calls[i + 1].op) = 12
  /\ \A op \in {"getMarker", "addObject", "MarkerLabel", "bindTo", "getGeoLocation",
                "observeAttrSetObj", "bind"} : Count(op) > 0 => Count("getEvents") = 1
  /\ Count("getGeoLocation") > 0 => (Count("addObject") = 1 /\ marker.made)
  /\ Count("MarkerLabel") = 1 <=> label.made
  /\ Count("bindTo") = Count("MarkerLabel")
  /\ phase = "linked" =>
       /\ Count("getMarker") = 1 /\ Count("addObject") = 1
       /\ Count("observeAttrSetObj") = 1 /\ Count("bind") = 1
       /\ Count("MarkerLabel") = 1 <=> parsed["customlabel"].t # "undefined"
       /\ Count("getGeoLocation") = 1 <=> IsAddress(parsed["position"])
  /\ (Count("deleteObject") > 0 \/ Count("setPosition") > 0) =>
       (phase = "linked" /\ Count("bind") = 1)

C15_Witness ==
  /\ phase = "linked"
  /\ label.made
  /\ geo = "pending"
  /\ Len(calls) = 11
  /\ calls[9].op = "getGeoLocation"

\* C16: a directive instance creates at most one marker and at most one
\* label overlay; a label exists only with a customlabel, and neither a
\* geocode resolution nor a later event creates a second marker or label.
C16_OneMarkerOneLabel ==
  /\ Count("getMarker") <= 1
  /\ Count("MarkerLabel") <= 1
  /\ marker.made => Count("getMarker") = 1
  /\ label.made => (Count("MarkerLabel") = 1 /\ parsed["customlabel"].t # "undefined")

C16_Witness ==
  /\ label.made
  /\ geo = "resolved"
  /\ destroyed
  /\ overlay.last # <<>>
  /\ Count("getMarker") = 1
  /\ Count("MarkerLabel") = 1

C18_DestroyFrame ==
  [][(~destroyed /\ destroyed') =>
       UNCHANGED <<marker, markerOptions, label, overlay, geo, phase, destroyBound>>]_vars

C18_Witness ==
  /\ destroyed
  /\ phase = "linked"
  /\ overlay.parent = "overlayImage"
  /\ geo = "pending"
  /\ BagCardinality(marker.listeners) = 1
  /\ "m" \notin markers

C19_Default(f) ==
  CASE f = "color" -> Str(S_black)
    [] f \in {"fillColor", "strokeColor"} -> Str(S_white)
    [] OTHER -> Num(1)

\* C19: each of the fields color, fillColor, fillOpacity, strokeColor and
\* strokeWeight of the label has the supplied value whenever the customlabel
\* supplies the field, falsy values such as 0 included, and the documented
\* default only when the field is absent.
C19_SuppliedFieldsKept ==
  label.made =>
    \A f \in LabelFields :
      label.values[f] = IF f \in DOMAIN parsed["customlabel"].f
                          THEN parsed["customlabel"].f[f]
                          ELSE C19_Default(f)

\* C20: with a position that is absent or empty no geocode lookup is
\* started: the marker is constructed at (0,0) and stays there, and
\* zoomToIncludeMarkers is never requested and the geo-callback expression
\* never evaluated.
C20_NoLookupWithoutAddress ==
  (parsed["position"].t = "undefined" \/ parsed["position"] = Str(<<>>)) =>
    /\ geo = "none"
    /\ Count("getGeoLocation") = 0
    /\ Count("zoomToIncludeMarkers") = 0
    /\ Count("$parse") = 0
    /\ Count("setPosition") = 0
    /\ marker.made => (markerOptions["position"] = LatLng(0, 0)
                         /\ marker.props["position"] = LatLng(0, 0))

C20_Witness ==
  /\ parsed["position"] = Str(<<>>)
  /\ Truthy(attrs["geoCallback"])
  /\ phase = "linked"
  /\ destroyed
  /\ marker.props["position"] = LatLng(0, 0)

====
